---- MODULE Spec2Model ----
(***************************************************************************)
(* Model of python/api.py: the POST /predict endpoint of the student       *)
(* dashboard.  A request carries a sequence of study sessions (date text,  *)
(* hours) and remaining_hours; predict_completion fits a line through      *)
(* (days since first date, cumulative hours) and projects a finish date.   *)
(*                                                                         *)
(* Numbers: hours are integers here and every float of the program is an   *)
(* exact fraction [num, den]; den = 0 stands for a non-finite float        *)
(* (NaN/inf).  Rounding error of binary floating point is not modelled.    *)
(* Dates: the text "YYYY-MM-DD" is the triple <<Y, M, D>>; a datetime is   *)
(* the number of days since EpochYear-01-01.                               *)
(***************************************************************************)
EXTENDS Integers, Sequences, FiniteSets, TLC

\* ------------------------------------------------------------------ bounds
MaxSessions == 3       \* longest session list of a request
MaxDayOffset == 2      \* session dates range over BaseDate .. BaseDate + MaxDayOffset
MaxHours == 2          \* largest hours of a session
MaxRemaining == 4      \* largest remaining_hours
ConcMaxSessions == 3   \* longest session list in the concurrent specification
NumCallers == 2        \* concurrent calls in the concurrent specification

\* --------------------------------------------------------------- calendar
BaseDate == <<2024, 1, 1>>
EpochYear == BaseDate[1]

IsLeap(y) == (y % 4 = 0 /\ y % 100 # 0) \/ y % 400 = 0

DaysInYear(y) == IF IsLeap(y) THEN 366 ELSE 365

DaysInMonth(y, m) ==
    IF m = 2 THEN (IF IsLeap(y) THEN 29 ELSE 28)
    ELSE IF m \in {4, 6, 9, 11} THEN 30 ELSE 31

RECURSIVE DaysBeforeYear(_)
DaysBeforeYear(y) ==
    IF y = EpochYear THEN 0
    ELSE IF y > EpochYear THEN DaysBeforeYear(y - 1) + DaysInYear(y - 1)
    ELSE DaysBeforeYear(y + 1) - DaysInYear(y)

RECURSIVE DaysBeforeMonth(_, _)
DaysBeforeMonth(y, m) ==
    IF m = 1 THEN 0 ELSE DaysBeforeMonth(y, m - 1) + DaysInMonth(y, m - 1)

\* datetime.strptime(s, "%Y-%m-%d") raises ValueError unless this holds
ParsesAsDate(s) == s[2] \in 1..12 /\ s[3] \in 1..DaysInMonth(s[1], s[2])

\* datetime.strptime(s, "%Y-%m-%d") for a text that parses
strptime(s) == DaysBeforeYear(s[1]) + DaysBeforeMonth(s[1], s[2]) + s[3] - 1

RECURSIVE YearAndDay(_, _)
YearAndDay(n, y) ==
    IF n < 0 THEN YearAndDay(n + DaysInYear(y - 1), y - 1)
    ELSE IF n >= DaysInYear(y) THEN YearAndDay(n - DaysInYear(y), y + 1)
    ELSE <<y, n>>

RECURSIVE MonthAndDay(_, _, _)
MonthAndDay(y, n, m) ==
    IF n >= DaysInMonth(y, m) THEN MonthAndDay(y, n - DaysInMonth(y, m), m + 1)
    ELSE <<m, n + 1>>

\* d.strftime("%Y-%m-%d")
strftime(d) ==
    LET yd == YearAndDay(d, EpochYear)
        md == MonthAndDay(yd[1], yd[2], 1)
    IN  <<yd[1], md[1], md[2]>>

\* ---------------------------------------------------------- float values
Rat(n, d) == [num |-> n, den |-> d]

IsFinite(q) == q.den # 0

\* q <= 0 as Python evaluates it: every comparison with NaN is False
FloatLeqZero(q) == IsFinite(q) /\ q.num <= 0

FloatSub(a, b) == Rat(a.num * b.den - b.num * a.den, a.den * b.den)

FloatDiv(a, b) ==
    IF b.num > 0 THEN Rat(a.num * b.den, a.den * b.num)
    ELSE IF b.num < 0 THEN Rat(0 - a.num * b.den, 0 - a.den * b.num)
    ELSE Rat(0, 0)

\* int(q) of a finite float: the fraction is discarded, toward zero
TruncToInt(q) ==
    IF q.num >= 0 THEN q.num \div q.den ELSE 0 - ((0 - q.num) \div q.den)

\* round(q, 2) in hundredths, ties to the even hundredth
round2(q) ==
    LET n == 100 * q.num
        lo == n \div q.den
        r == n - lo * q.den
    IN  IF 2 * r < q.den THEN lo
        ELSE IF 2 * r > q.den THEN lo + 1
        ELSE IF lo % 2 = 0 THEN lo ELSE lo + 1

\* ------------------------------------------------------------ data models
DateStrings ==
    {strftime(strptime(BaseDate) + k) : k \in 0..MaxDayOffset} \cup {<<2024, 2, 30>>}

\* hours is any float: one negative value stands for the negative ones
Hours == -1..MaxHours

StudySession == [date : DateStrings, hours : Hours]

SessionLists == UNION {[1..n -> StudySession] : n \in 0..MaxSessions}

\* a body that decodes as PredictionRequest: every date a string, every
\* hours and remaining_hours a number
PredictionRequest ==
    [sessions : SessionLists, remaining_hours : 0..MaxRemaining, schema_ok : {TRUE}]

\* a body that does not decode (a field missing or of another type); what it
\* holds besides is of no consequence
MalformedBody ==
    [sessions : {<<>>} \cup [1..1 -> StudySession], remaining_hours : {0},
     schema_ok : {FALSE}]

\* ------------------------------------------------------------- responses
NoDate == <<>>

Response(http, status, date, vel) ==
    [http |-> http, status |-> status, predicted_date |-> date,
     velocity_hours_per_day |-> vel]

NoResponse == Response(0, "none", NoDate, 0)

ValidationError == Response(422, "validation_error", NoDate, 0)

InternalServerError == Response(500, "internal_server_error", NoDate, 0)

InsufficientData == Response(200, "insufficient_data", NoDate, 0)

Stalled == Response(200, "stalled", NoDate, 0)

Success(date, vel) == Response(200, "success", date, vel)

\* ------------------------------------------------------------- predictor
MinSessionsOff == 3 - 1
MinSessions == 3

RECURSIVE SumTo(_, _)
SumTo(f, n) == IF n = 0 THEN 0 ELSE SumTo(f, n - 1) + f[n]

\* np.cumsum(hours)
cumsum(h) == [i \in 1..Len(h) |-> SumTo(h, i)]

MaxOf(S) == CHOOSE m \in S : \A e \in S : e <= m
MinOf(S) == CHOOSE m \in S : \A e \in S : m <= e

\* min(dates)
FirstListedDate(dates) == dates[1]
LatestDate(dates) == MaxOf({dates[i] : i \in 1..Len(dates)})
EarliestDate(dates) == MinOf({dates[i] : i \in 1..Len(dates)})

\* scipy.linalg.lstsq on one centred column: the minimum-norm solution,
\* which is 0 when the column is all zeros
lstsqNormalEquations(sxy, sxx) == Rat(sxy, sxx)
lstsq(sxy, sxx) == IF sxx = 0 THEN Rat(0, 1) ELSE Rat(sxy, sxx)

\* intercept_ = y_offset - X_offset * coef_
InterceptPlus(sy, sx, n, coef) ==
    Rat(sy * coef.den + sx * coef.num, n * coef.den)
Intercept(sy, sx, n, coef) ==
    Rat(sy * coef.den - sx * coef.num, n * coef.den)

\* LinearRegression().fit(X, y): centre X and y on their means, solve the
\* least-squares problem, recover the intercept.  Centred values are kept
\* multiplied by n.
fit(X, y) ==
    LET n == Len(X)
        sx == SumTo(X, n)
        sy == SumTo(y, n)
        Xc == [i \in 1..n |-> n * X[i] - sx]
        yc == [i \in 1..n |-> n * y[i] - sy]
        sxy == SumTo([i \in 1..n |-> Xc[i] * yc[i]], n)
        sxx == SumTo([i \in 1..n |-> Xc[i] * Xc[i]], n)
        coef == lstsq(sxy, sxx)
    IN  [fitted |-> TRUE, coef |-> coef, intercept |-> Intercept(sy, sx, n, coef)]

Unfitted == [fitted |-> FALSE, coef |-> Rat(0, 1), intercept |-> Rat(0, 1)]

AllDatesParse(data) ==
    \A i \in 1..Len(data.sessions) : ParsesAsDate(data.sessions[i].date)

\* lines 37-43: dates, start_date, days_since_start, cumulative_hours
PrepareData(data) ==
    LET n == Len(data.sessions)
        dates == [i \in 1..n |-> strptime(data.sessions[i].date)]
        start_date == EarliestDate(dates)
    IN  [start_date |-> start_date,
         days_since_start |-> [i \in 1..n |-> dates[i] - start_date],
         cumulative_hours |-> cumsum([i \in 1..n |-> data.sessions[i].hours])]

IntRound(q) ==
    LET lo == q.num \div q.den
        r == q.num - lo * q.den
    IN  IF 2 * r < q.den THEN lo
        ELSE IF 2 * r > q.den THEN lo + 1
        ELSE IF lo % 2 = 0 THEN lo ELSE lo + 1
DaysToAdd(days_needed) == TruncToInt(days_needed)

\* lines 51-69: target, velocity, stalled test, days_needed, finish_date
PredictFuture(data, prep, model) ==
    IF ~model.fitted THEN InternalServerError
    ELSE
    LET cum == prep.cumulative_hours
        current_total == cum[Len(cum)]
        target_total == current_total + data.remaining_hours
        velocity == model.coef
        days_needed == FloatDiv(FloatSub(Rat(target_total, 1), model.intercept), velocity)
    IN  IF FloatLeqZero(velocity) THEN Stalled
        ELSE IF ~IsFinite(velocity) \/ ~IsFinite(days_needed) THEN InternalServerError
        ELSE Success(strftime(prep.start_date + DaysToAdd(days_needed)), round2(velocity))

\* predict_completion(data) for a request that passed validation
predict_completion(data) ==
    IF Len(data.sessions) < MinSessions THEN InsufficientData
    ELSE IF ~AllDatesParse(data) THEN InternalServerError
    ELSE LET prep == PrepareData(data)
         IN  PredictFuture(data, prep, fit(prep.days_since_start, prep.cumulative_hours))

\* ------------------------------------------------------------------ state
VARIABLES req, pc, resp, call

vars == <<req, pc, resp, call>>

Callers == 1..NumCallers

\* a worker between calls: no frame
IdleCall == [pc |-> "idle", data |-> <<>>, prep |-> <<>>, model |-> Unfitted,
             resp |-> NoResponse]

\* ------------------------------------------- one request/response cycle
Init ==
    /\ req \in PredictionRequest \cup MalformedBody
    /\ pc = "received"
    /\ resp = NoResponse
    /\ call = [c \in Callers |-> IdleCall]

\* the framework decodes the body against PredictionRequest; a body that
\* does not decode is answered 422 and the handler is not called
Validate ==
    /\ pc = "received"
    /\ IF req.schema_ok
       THEN pc' = "validated" /\ resp' = resp
       ELSE pc' = "done" /\ resp' = ValidationError
    /\ UNCHANGED <<req, call>>

\* the handler; an exception it raises is answered 500
Predict ==
    /\ pc = "validated"
    /\ resp' = predict_completion(req)
    /\ pc' = "done"
    /\ UNCHANGED <<req, call>>

Next == Validate \/ Predict

Spec == Init /\ [][Next]_vars

\* ------------------------------------------------- concurrent handlers
\* The endpoint is a plain def, so the framework runs each call on a worker
\* thread; calls interleave between statements.  Every name the handler
\* assigns (dates, start_date, ..., model) is a local of that call.
ConcDateStrings == {BaseDate, strftime(strptime(BaseDate) + 1)}

ConcSession == [date : ConcDateStrings, hours : {1}]

BadDateSessions ==
    [i \in 1..MinSessions |-> [date |-> <<2024, 2, 30>>, hours |-> 1]]

ConcRequests ==
    [sessions : UNION {[1..n -> ConcSession] : n \in 2..ConcMaxSessions}
                    \cup {BadDateSessions},
     remaining_hours : {1}, schema_ok : {TRUE}]

NoRequest == [sessions |-> <<>>, remaining_hours |-> 0, schema_ok |-> TRUE]

\* model = LinearRegression() binds a new estimator in the call's own frame
FittedModelShared(c) == call[1].model
FittedModel(c) == call[c].model

InitConc ==
    /\ req = NoRequest
    /\ pc = "unused"
    /\ resp = NoResponse
    /\ call = [c \in Callers |-> IdleCall]

\* a validated request is handed to a worker
Receive(c) ==
    /\ call[c].pc = "idle"
    /\ \E d \in ConcRequests :
          call' = [call EXCEPT ![c].pc = "entered", ![c].data = d]
    /\ UNCHANGED <<req, pc, resp>>

\* lines 32-33
CheckLength(c) ==
    /\ call[c].pc = "entered"
    /\ IF Len(call[c].data.sessions) < MinSessions
       THEN call' = [call EXCEPT ![c].pc = "done", ![c].resp = InsufficientData]
       ELSE call' = [call EXCEPT ![c].pc = "prepare"]
    /\ UNCHANGED <<req, pc, resp>>

\* lines 37-43; a date that does not parse raises out of the handler
Prepare(c) ==
    /\ call[c].pc = "prepare"
    /\ IF AllDatesParse(call[c].data)
       THEN call' = [call EXCEPT ![c].pc = "train",
                                 ![c].prep = PrepareData(call[c].data)]
       ELSE call' = [call EXCEPT ![c].pc = "done", ![c].resp = InternalServerError]
    /\ UNCHANGED <<req, pc, resp>>

\* lines 46-47
Train(c) ==
    /\ call[c].pc = "train"
    /\ call' = [call EXCEPT ![c].pc = "project",
                            ![c].model = fit(call[c].prep.days_since_start,
                                             call[c].prep.cumulative_hours)]
    /\ UNCHANGED <<req, pc, resp>>

\* lines 51-69
Project(c) ==
    /\ call[c].pc = "project"
    /\ call' = [call EXCEPT ![c].pc = "done",
                            ![c].resp = PredictFuture(call[c].data, call[c].prep,
                                                      FittedModel(c))]
    /\ UNCHANGED <<req, pc, resp>>

\* the response is sent and the call's frame is discarded
Return(c) ==
    /\ call[c].pc = "done"
    /\ call' = [call EXCEPT ![c] = IdleCall]
    /\ UNCHANGED <<req, pc, resp>>

NextConc ==
    \E c \in Callers :
        Receive(c) \/ CheckLength(c) \/ Prepare(c) \/ Train(c) \/ Project(c) \/ Return(c)

SpecConc == InitConc /\ [][NextConc]_vars

\* ------------------------------------------- properties of one request
N == Len(req.sessions)

\* the handler has answered the request
Answered == pc = "done" /\ req.schema_ok

NonNegativeHours == \A i \in 1..N : req.sessions[i].hours >= 0

SomeNegativeHours == \E i \in 1..N : req.sessions[i].hours < 0

RefTrunc(a, b) == IF a >= 0 THEN a \div b ELSE 0 - ((0 - a) \div b)

RECURSIVE RefSum(_, _)
RefSum(f, i) == IF i = 0 THEN 0 ELSE RefSum(f, i - 1) + f[i]

\* reference computation over a request whose dates all parse: points paired
\* positionally, x_i = whole days from the earliest date to the i-th date,
\* y_i = hours of sessions 1..i, and the closed form of the least-squares
\* line: Sxy = n*sum(x*y) - sum(x)*sum(y), Sxx = n*sum(x*x) - sum(x)^2,
\* slope = Sxy / Sxx, intercept = (sum(y) - slope*sum(x)) / n, and
\* days = (y_n + R - intercept) / slope written as one fraction
Reference ==
    LET date == [i \in 1..N |-> strptime(req.sessions[i].date)]
        start == MinOf({date[i] : i \in 1..N})
        x == [i \in 1..N |-> date[i] - start]
        h == [i \in 1..N |-> req.sessions[i].hours]
        y == [i \in 1..N |-> RefSum(h, i)]
        sx == RefSum(x, N)
        sy == RefSum(y, N)
        sxy == N * RefSum([i \in 1..N |-> x[i] * y[i]], N) - sx * sy
        sxx == N * RefSum([i \in 1..N |-> x[i] * x[i]], N) - sx * sx
    IN  [date |-> date, start |-> start,
         latest |-> MaxOf({date[i] : i \in 1..N}),
         y |-> y, sxy |-> sxy, sxx |-> sxx,
         daysNum |-> N * (y[N] + req.remaining_hours) * sxx - sy * sxx + sxy * sx,
         daysDen |-> N * sxy]

RefSlopePositive(r) == r.sxx > 0 /\ r.sxy > 0

RefPredictedDate(r) == strftime(r.start + RefTrunc(r.daysNum, r.daysDen))

\* C1: a request of 0, 1 or 2 sessions is answered insufficient_data,
\* whatever its dates (parseable or not), hours and remaining_hours are
C1_InsufficientBelowThree ==
    (Answered /\ N < 3) => resp = InsufficientData

C1_Witness ==
    /\ Answered /\ N = 2
    /\ ~AllDatesParse(req) /\ SomeNegativeHours
    /\ resp = InsufficientData

ConstantRate(h) ==
    /\ N >= 3 /\ AllDatesParse(req)
    /\ \A i \in 1..(N - 1) :
          strptime(req.sessions[i + 1].date) = strptime(req.sessions[i].date) + 1
    /\ \A i \in 1..N : req.sessions[i].hours = h

SameDate ==
    /\ N >= 3 /\ AllDatesParse(req)
    /\ \A i \in 1..N : req.sessions[i].date = req.sessions[1].date

\* C3: 3 or more sessions all on one calendar date are answered with the
\* stalled outcome: no exception, no success built on a division by zero
C3_SameDateStalled == (Answered /\ SameDate) => resp = Stalled

C3_Witness ==
    /\ Answered /\ SameDate
    /\ \E i \in 1..N : req.sessions[i].hours > 0
    /\ resp = Stalled

NonIncreasingCumulative(r) == \A i \in 1..(N - 1) : r.y[i] >= r.y[i + 1]

\* C4 (as claimed): 3 or more sessions whose running sum of hours in
\* request order is non-increasing are answered stalled, in any date order
C4_Claim ==
    (Answered /\ N >= 3 /\ AllDatesParse(req)) =>
        LET r == Reference
        IN  NonIncreasingCumulative(r) => resp.status = "stalled"

\* with no negative hours a non-increasing running sum is a constant one and
\* the outcome is stalled in every date order
C4_NonNegativeHoursStalled ==
    (Answered /\ N >= 3 /\ AllDatesParse(req) /\ NonNegativeHours) =>
        LET r == Reference
        IN  NonIncreasingCumulative(r) => resp = Stalled

\* C5 (as claimed): a request with negative hours in some session is
\* rejected as a validation error
C5_Claim == (pc = "done" /\ SomeNegativeHours) => resp = ValidationError

\* C6 (as claimed): a request with a date that does not parse as YYYY-MM-DD
\* is answered with a client error
C6_Claim ==
    (pc = "done" /\ ~AllDatesParse(req)) => (resp.http >= 400 /\ resp.http < 500)

NothingRemains ==
    /\ Answered /\ N >= 3 /\ AllDatesParse(req)
    /\ NonNegativeHours /\ req.remaining_hours = 0

ModelIntercept ==
    LET prep == PrepareData(req)
    IN  fit(prep.days_since_start, prep.cumulative_hours).intercept

\* C10: with non-negative hours and remaining_hours, a success has
\* intercept <= target_total and a predicted_date not before start_date
C10_NeverBeforeStart ==
    (Answered /\ N >= 3 /\ AllDatesParse(req) /\ NonNegativeHours
        /\ resp.status = "success") =>
        LET r == Reference
            b == ModelIntercept
        IN  /\ b.num <= (r.y[N] + req.remaining_hours) * b.den
            /\ strptime(resp.predicted_date) >= r.start

C10_Witness ==
    /\ Answered /\ N >= 3 /\ AllDatesParse(req) /\ NonNegativeHours
    /\ resp.status = "success"
    /\ LET r == Reference
       IN  /\ \E i \in 1..(N - 1) : r.date[i] > r.date[i + 1]
           /\ strptime(resp.predicted_date) \in r.start..r.latest

\* ------------------------------------------ properties of concurrent calls
\* C8: whatever the other calls do and whatever ran before, a call's
\* response is the response its own request gets when handled alone
C8_Stateless ==
    \A c \in Callers :
        call[c].pc = "done" => call[c].resp = predict_completion(call[c].data)

\* both calls in flight with different requests, one answered with success
C8_Witness ==
    \E c, d \in Callers :
        /\ c # d
        /\ call[c].pc = "done" /\ call[c].resp.status = "success"
        /\ call[d].pc = "project"
        /\ call[d].data # call[c].data
        /\ call[d].model # call[c].model

====
